---------------------------- MODULE Spec2Model ----------------------------
(***************************************************************************)
(* RAG HTTP service (rag_api.py) and the MCP tool proxy (server.py,        *)
(* tools/rag_tools.py).                                                    *)
(*                                                                         *)
(* A text that the code inspects character by character (snippets,         *)
(* queries, credentials) is a sequence of one-character strings.  A        *)
(* literal of the source that is only ever concatenated (a prompt          *)
(* template, a message) is one symbol of the sequence.                     *)
(***************************************************************************)
EXTENDS Integers, Sequences, FiniteSets, TLC

VARIABLES
  DOCS,             \* rag_api.py: the in-memory document list
  genai,            \* rag_api.py: TRUE iff the generation module was configured
  RAG_TOKEN,        \* rag_api.py: the configured bearer token
  AVAILABLE_TOOLS,  \* server.py: the proxy's tool list (empty = Unconfigured)
  loop,             \* rag_api.py: the event loop's requests and the one running
  last              \* history: the last operation handled and its outcome

vars == <<DOCS, genai, RAG_TOKEN, AVAILABLE_TOOLS, loop, last>>

\* No request received, no coroutine running.
IdleLoop == [running |-> 0, tasks |-> <<>>]

\* Python's None where a text may be absent: a value no text is equal to
\* (every symbol of a text that is compared is one character).
None == <<"None">>

(***************************************************************************)
(* Bounds of the model.                                                    *)
(***************************************************************************)
MaxIngest == 2        \* appended snippets per behaviour
MaxQueryTokens == 3   \* tokens a query is concatenated from
MaxTopK == 3          \* largest top_k tried

(***************************************************************************)
(* rag_api.py:31-35, the seed snippets.                                    *)
(***************************************************************************)
Doc1 ==
  <<"T", "h", "i", "s", " ", "i", "s", " ", "a", " ", "R", "A", "G", " ",
    "M", "C", "P", " ", "p", "r", "o", "j", "e", "c", "t", ".", " ", "M",
    "C", "P", " ", "s", "e", "r", "v", "e", "r", " ", "r", "u", "n", "s",
    " ", "l", "o", "c", "a", "l", "l", "y", " ", "a", "n", "d", " ", "f",
    "o", "r", "w", "a", "r", "d", "s", " ", "q", "u", "e", "r", "i", "e",
    "s", ".">>

Doc2 ==
  <<"T", "h", "e", " ", "R", "A", "G", " ", "H", "T", "T", "P", " ", "e",
    "n", "d", "p", "o", "i", "n", "t", " ", "i", "s", " ", "d", "e", "p",
    "l", "o", "y", "e", "d", " ", "o", "n", " ", "R", "e", "n", "d", "e",
    "r", " ", "a", "n", "d", " ", "p", "r", "o", "t", "e", "c", "t", "e",
    "d", " ", "w", "i", "t", "h", " ", "B", "e", "a", "r", "e", "r", " ",
    "t", "o", "k", "e", "n", ".">>

Doc3 ==
  <<"Y", "o", "u", " ", "c", "a", "n", " ", "p", "l", "u", "g", " ", "G",
    "e", "m", "i", "n", "i", " ", "t", "o", " ", "g", "e", "n", "e", "r",
    "a", "t", "e", " ", "f", "i", "n", "a", "l", " ", "a", "n", "s", "w",
    "e", "r", "s", " ", "f", "r", "o", "m", " ", "r", "e", "t", "r", "i",
    "e", "v", "e", "d", " ", "c", "o", "n", "t", "e", "x", "t", ".">>

SeedDocs == <<Doc1, Doc2, Doc3>>

(***************************************************************************)
(* str.lower, str.split and the substring test `w in d`.                   *)
(***************************************************************************)
UpperToLower ==
  [A |-> "a", B |-> "b", C |-> "c", D |-> "d", E |-> "e", F |-> "f",
   G |-> "g", H |-> "h", I |-> "i", J |-> "j", K |-> "k", L |-> "l",
   M |-> "m", N |-> "n", O |-> "o", P |-> "p", Q |-> "q", R |-> "r",
   S |-> "s", T |-> "t", U |-> "u", V |-> "v", W |-> "w", X |-> "x",
   Y |-> "y", Z |-> "z"]

LowerChar(c) == IF c \in DOMAIN UpperToLower THEN UpperToLower[c] ELSE c

Lower(s) == [i \in 1..Len(s) |-> LowerChar(s[i])]

Whitespace == {" ", "\t", "\n", "\r"}

\* str.split(): the maximal runs of non-whitespace characters, in order.
RECURSIVE SplitFrom(_, _, _)
SplitFrom(s, i, word) ==
  IF i > Len(s)
    THEN IF word = <<>> THEN <<>> ELSE <<word>>
    ELSE IF s[i] \in Whitespace
           THEN IF word = <<>>
                  THEN SplitFrom(s, i + 1, <<>>)
                  ELSE <<word>> \o SplitFrom(s, i + 1, <<>>)
           ELSE SplitFrom(s, i + 1, Append(word, s[i]))

Split(s) == SplitFrom(s, 1, <<>>)

\* `w in d` on strings: w occurs in d as a contiguous substring.
Contains(w, d) ==
  \E i \in 0..(Len(d) - Len(w)) : SubSeq(d, i + 1, i + Len(w)) = w

\* sum(1 for w in qwords if w in d.lower())
Score(qwords, d) ==
  Cardinality({i \in 1..Len(qwords) : Contains(qwords[i], Lower(d))})

\* list[:k] of Python, for any integer k.
SliceTo(s, k) ==
  IF k >= 0
    THEN SubSeq(s, 1, IF k < Len(s) THEN k ELSE Len(s))
    ELSE SubSeq(s, 1, IF Len(s) + k > 0 THEN Len(s) + k ELSE 0)

\* One step of a stable descending sort: x goes after every element whose
\* score is at least its own.
RECURSIVE InsertDesc(_, _)
InsertDesc(sorted, x) ==
  IF sorted = <<>> THEN <<x>>
  ELSE IF Head(sorted).score >= x.score
         THEN <<Head(sorted)>> \o InsertDesc(Tail(sorted), x)
         ELSE <<x>> \o sorted

RECURSIVE SortFrom(_, _, _)
SortFrom(scored, i, acc) ==
  IF i > Len(scored) THEN acc
  ELSE SortFrom(scored, i + 1, InsertDesc(acc, scored[i]))

\* A sort that orders by score but reverses the entries of equal score
\* (sort ascending, then reverse the list).
RECURSIVE InsertDescBefore(_, _)
InsertDescBefore(sorted, x) ==
  IF sorted = <<>> THEN <<x>>
  ELSE IF Head(sorted).score > x.score
         THEN <<Head(sorted)>> \o InsertDescBefore(Tail(sorted), x)
         ELSE <<x>> \o sorted

RECURSIVE SortFromBefore(_, _, _)
SortFromBefore(scored, i, acc) ==
  IF i > Len(scored) THEN acc
  ELSE SortFromBefore(scored, i + 1, InsertDescBefore(acc, scored[i]))

SortDescUnstable(scored) == SortFromBefore(scored, 1, <<>>)

\* scored.sort(key=lambda x: x[0], reverse=True): list.sort is stable, and
\* reverse=True keeps the original order of entries with equal keys.
SortDesc(scored) == SortFrom(scored, 1, <<>>)

\* simple_retrieve without the `or DOCS[:1]` fallback.
simple_retrieve_NoFallback(docs, query, top_k) ==
  LET qwords == Split(Lower(query))
      scored == [i \in 1..Len(docs) |->
                   [score |-> Score(qwords, docs[i]), d |-> docs[i]]]
      top    == SliceTo(SortDesc(scored), top_k)
      kept   == SelectSeq(top, LAMBDA x : x.score > 0)
  IN  [i \in 1..Len(kept) |-> kept[i].d]

\* rag_api.py:55-63
simple_retrieve(docs, query, top_k) ==
  LET qwords == Split(Lower(query))
      scored == [i \in 1..Len(docs) |->
                   [score |-> Score(qwords, docs[i]), d |-> docs[i]]]
      top    == SliceTo(SortDesc(scored), top_k)
      kept   == SelectSeq(top, LAMBDA x : x.score > 0)
      docs_  == [i \in 1..Len(kept) |-> kept[i].d]
  IN  IF docs_ # <<>> THEN docs_ ELSE SliceTo(docs, 1)

DefaultTopK == 3


(***************************************************************************)
(* Inputs.                                                                 *)
(***************************************************************************)
QueryTokens == {<<"R", "A", "G">>, <<"G", "e", "m", "i", "n", "i">>, <<" ">>}

RECURSIVE QueriesOf(_)
QueriesOf(n) ==
  IF n = 0 THEN {<<>>}
  ELSE LET shorter == QueriesOf(n - 1)
       IN  shorter \cup {q \o t : q \in shorter, t \in QueryTokens}

Queries == QueriesOf(MaxQueryTokens)

TopKs == (-1)..MaxTopK

Texts == {<<"g", "e", "m", "i", "n", "i", " ", "r", "a", "g">>,
          <<"R", "A", "G">>}

\* rag_api.py:28, the token when RAG_API_TOKEN is not set
DefaultToken == <<"t", "e", "s", "t">>

InitLast == [op |-> "init"]

(***************************************************************************)
(* simple_retrieve as a function of the store, the query and top_k: any    *)
(* number of appends to the store, then one call.                          *)
(***************************************************************************)
InitRetrieve ==
  /\ DOCS = SeedDocs
  /\ genai = FALSE
  /\ RAG_TOKEN = DefaultToken
  /\ AVAILABLE_TOOLS = <<>>
  /\ loop = IdleLoop
  /\ last = InitLast

\* rag_api.py:136
AppendDoc(text) ==
  /\ last.op = "init"
  /\ Len(DOCS) < Len(SeedDocs) + MaxIngest
  /\ DOCS' = Append(DOCS, text)
  /\ UNCHANGED <<genai, RAG_TOKEN, AVAILABLE_TOOLS, loop, last>>

CallRetrieve(query, top_k) ==
  /\ last.op = "init"
  /\ last' = [op |-> "simple_retrieve", query |-> query, top_k |-> top_k,
              results |-> simple_retrieve(DOCS, query, top_k)]
  /\ UNCHANGED <<DOCS, genai, RAG_TOKEN, AVAILABLE_TOOLS, loop>>

NextRetrieve ==
  \/ \E text \in Texts : AppendDoc(text)
  \/ \E query \in Queries, top_k \in TopKs : CallRetrieve(query, top_k)

SpecRetrieve == InitRetrieve /\ [][NextRetrieve]_vars

(***************************************************************************)
(* The ranking the retriever is specified to produce, stated without the   *)
(* sort: position i comes before position j iff it scores more, or scores  *)
(* the same and was inserted earlier.                                      *)
(***************************************************************************)
ScoreAt(query, i) == Score(Split(Lower(query)), DOCS[i])

Positives(query) == {i \in 1..Len(DOCS) : ScoreAt(query, i) > 0}

RankOf(query, i) ==
  1 + Cardinality({j \in 1..Len(DOCS) :
        \/ ScoreAt(query, j) > ScoreAt(query, i)
        \/ ScoreAt(query, j) = ScoreAt(query, i) /\ j < i})

PosAtRank(query, r) == CHOOSE i \in 1..Len(DOCS) : RankOf(query, i) = r

Ranked(query, top_k) ==
  LET n == Cardinality(Positives(query))
  IN  [r \in 1..(IF top_k < n THEN top_k ELSE n) |->
         DOCS[PosAtRank(query, r)]]

NoOverlap(query) ==
  LET qwords == Split(Lower(query))
  IN  \A w \in 1..Len(qwords), i \in 1..Len(DOCS) :
        ~Contains(qwords[w], Lower(DOCS[i]))

\* C4 as claimed, for a positive top_k: for every query and store,
\* simple_retrieve returns at most top_k snippets, each of positive score,
\* ordered by descending score with insertion order breaking ties.
C4_AsClaimed ==
  (last.op = "simple_retrieve" /\ last.top_k >= 1) =>
    /\ Len(last.results) <= last.top_k
    /\ \A i \in 1..Len(last.results) :
         Score(Split(Lower(last.query)), last.results[i]) > 0
    /\ last.results = Ranked(last.query, last.top_k)

\* C4 amended: for top_k >= 1 the result has at most top_k snippets; when
\* some stored snippet scores above 0 it is the positive-score snippets in
\* descending score, insertion order breaking ties, cut at top_k; when none
\* does it is the single first stored snippet, whose score is 0.
C4_RankedOrFallback ==
  (last.op = "simple_retrieve" /\ last.top_k >= 1) =>
    /\ Len(last.results) <= last.top_k
    /\ IF Positives(last.query) # {}
         THEN /\ last.results = Ranked(last.query, last.top_k)
              /\ \A i \in 1..Len(last.results) :
                   Score(Split(Lower(last.query)), last.results[i]) > 0
         ELSE last.results = <<DOCS[1]>>

\* A call cut at top_k in which a later snippet outranks an earlier one and
\* two snippets tie.
C4_Witness ==
  /\ last.op = "simple_retrieve"
  /\ last.top_k >= 2
  /\ Len(last.results) = last.top_k
  /\ Cardinality(Positives(last.query)) > last.top_k
  /\ \E i, j \in Positives(last.query) :
       i < j /\ ScoreAt(last.query, j) > ScoreAt(last.query, i)
  /\ \E i, j \in Positives(last.query) :
       i # j /\ ScoreAt(last.query, i) = ScoreAt(last.query, j)

\* C5: simple_retrieve never returns an empty list, and for a query none of
\* whose words occurs in any stored snippet (the empty query included) it
\* returns exactly the first stored snippet, whatever was appended before.
C5_FallbackFirstSnippet ==
  last.op = "simple_retrieve" =>
    /\ last.results # <<>>
    /\ NoOverlap(last.query) => last.results = <<DOCS[1]>>

\* A query with words, none matching, against a store that was appended to.
C5_Witness ==
  /\ last.op = "simple_retrieve"
  /\ last.top_k = DefaultTopK
  /\ Split(Lower(last.query)) # <<>>
  /\ NoOverlap(last.query)
  /\ Len(DOCS) > Len(SeedDocs)
  /\ last.results = <<Doc1>>


(***************************************************************************)
(* The HTTP service: generation client, access guard and routes.           *)
(***************************************************************************)
BearerPrefix == <<"B", "e", "a", "r", "e", "r", " ">>

WrongToken == <<"s", "3">>

\* The Authorization headers presented: absent, the bare token, the exact
\* bearer string, a wrong token, a lower-case scheme.
Credentials ==
  {None, DefaultToken, BearerPrefix \o DefaultToken,
   BearerPrefix \o WrongToken,
   <<"b", "e", "a", "r", "e", "r", " ">> \o DefaultToken}

ApiQueries == QueriesOf(1)

ExtraContexts == {None, <<>>, <<"c", "t", "x">>}

\* What one generate_content call does: it returns text, or it raises.
ModelOutputs == {<<"model output 1">>, <<"model output 2">>}

Failure == [ok |-> FALSE, error |-> <<"model call failed">>]

Outcomes == {[ok |-> TRUE, text |-> o] : o \in ModelOutputs} \cup {Failure}

PrimaryModel == "gemini-2.5-flash"

SecondaryModel == "gemini-1.0-pro"

\* chr(10).join(docs)
RECURSIVE Join(_)
Join(docs) ==
  IF docs = <<>> THEN <<>>
  ELSE IF Len(docs) = 1 THEN docs[1]
  ELSE docs[1] \o <<"\n">> \o Join(Tail(docs))

\* rag_api.py:105-110
RagPrompt(docs, query) ==
  <<"You are a RAG assistant. Use ONLY this context.\n\n", "Context:\n">>
    \o Join(docs) \o <<"\n\n", "Question: ">> \o query
    \o <<"\n", "Answer clearly and mention which context you used.">>

\* rag_api.py:125-128
SummarizePrompt(query) ==
  <<"Summarize the following text in 3-5 bullet points:\n\n">> \o query

\* call_gemini without the `if not genai` guard.
call_gemini_NoGuard(prompt, primary, secondary) ==
  IF primary.ok
    THEN [raised |-> FALSE, value |-> primary.text,
          calls  |-> <<[model |-> PrimaryModel, prompt |-> prompt]>>]
  ELSE IF secondary.ok
    THEN [raised |-> FALSE, value |-> secondary.text,
          calls  |-> <<[model |-> PrimaryModel, prompt |-> prompt],
                       [model |-> SecondaryModel, prompt |-> prompt]>>]
  ELSE [raised |-> TRUE, value |-> secondary.error,
        calls  |-> <<[model |-> PrimaryModel, prompt |-> prompt],
                     [model |-> SecondaryModel, prompt |-> prompt]>>]

\* call_gemini calling both models every time and preferring the primary.
call_gemini_BothAlways(prompt, primary, secondary) ==
  LET both == <<[model |-> PrimaryModel, prompt |-> prompt],
                [model |-> SecondaryModel, prompt |-> prompt]>>
  IN  IF ~genai
        THEN [raised |-> FALSE,
              value  |-> <<"(Gemini not configured) ">> \o prompt,
              calls  |-> <<>>]
      ELSE IF primary.ok
        THEN [raised |-> FALSE, value |-> primary.text, calls |-> both]
      ELSE IF secondary.ok
        THEN [raised |-> FALSE, value |-> secondary.text, calls |-> both]
      ELSE [raised |-> TRUE, value |-> secondary.error, calls |-> both]

\* rag_api.py:66-78.  primary and secondary are what the two
\* generate_content calls do if they are made; the result says whether
\* call_gemini raised, what it returned (or the error it raised), and the
\* model calls it made, in order.
call_gemini(prompt, primary, secondary) ==
  IF ~genai
    THEN [raised |-> FALSE,
          value  |-> <<"(Gemini not configured) ">> \o prompt,
          calls  |-> <<>>]
  ELSE IF primary.ok
    THEN [raised |-> FALSE, value |-> primary.text,
          calls  |-> <<[model |-> PrimaryModel, prompt |-> prompt]>>]
  ELSE IF secondary.ok
    THEN [raised |-> FALSE, value |-> secondary.text,
          calls  |-> <<[model |-> PrimaryModel, prompt |-> prompt],
                       [model |-> SecondaryModel, prompt |-> prompt]>>]
  ELSE [raised |-> TRUE, value |-> secondary.error,
        calls  |-> <<[model |-> PrimaryModel, prompt |-> prompt],
                     [model |-> SecondaryModel, prompt |-> prompt]>>]

\* check_auth accepting the bare token as well.
check_auth_BareToken(auth) ==
  IF auth # BearerPrefix \o RAG_TOKEN /\ auth # RAG_TOKEN
    THEN [raised |-> TRUE, status |-> 401, detail |-> "Invalid token"]
    ELSE [raised |-> FALSE]

\* rag_api.py:81-83
check_auth(auth) ==
  IF auth # BearerPrefix \o RAG_TOKEN
    THEN [raised |-> TRUE, status |-> 401, detail |-> "Invalid token"]
    ELSE [raised |-> FALSE]

\* The outcome of a generate_content call that is never made is not drawn.
OutcomesDrawn(auth, primary, secondary) ==
  /\ (check_auth(auth).raised \/ ~genai) => primary = Failure
  /\ (check_auth(auth).raised \/ ~genai \/ primary.ok) => secondary = Failure

\* HTTPException(401, "Invalid token") leaving a route.
Rejected(op, auth) ==
  [op |-> op, auth |-> auth, status |-> 401,
   body |-> [detail |-> check_auth(auth).detail],
   calls |-> <<>>, retrieved |-> FALSE, before |-> DOCS]

\* An exception other than HTTPException leaving a route: the framework
\* answers 500.
Unhandled(op, auth, calls, retrieved, primary, secondary) ==
  [op |-> op, auth |-> auth, status |-> 500,
   body |-> "Internal Server Error",
   calls |-> calls, retrieved |-> retrieved, before |-> DOCS,
   primary |-> primary, secondary |-> secondary]

InitApi ==
  /\ DOCS = SeedDocs
  /\ genai \in BOOLEAN
  /\ RAG_TOKEN = DefaultToken
  /\ AVAILABLE_TOOLS = <<>>
  /\ loop = IdleLoop
  /\ last = InitLast

\* rag_api.py:88-90
health ==
  /\ last' = [op |-> "health", auth |-> None, status |-> 200,
              body |-> [status |-> "ok"],
              calls |-> <<>>, retrieved |-> FALSE, before |-> DOCS]
  /\ UNCHANGED <<DOCS, genai, RAG_TOKEN, AVAILABLE_TOOLS, loop>>

\* rag_api.py:93-112
rag_endpoint(auth, query, extra_context, primary, secondary) ==
  /\ OutcomesDrawn(auth, primary, secondary)
  /\ IF check_auth(auth).raised
       THEN last' = Rejected("rag", auth)
       ELSE LET found  == simple_retrieve(DOCS, query, DefaultTopK)
                docs   == IF extra_context # None /\ extra_context # <<>>
                            THEN <<extra_context>> \o found
                            ELSE found
                prompt == RagPrompt(docs, query)
                gen    == call_gemini(prompt, primary, secondary)
            IN  last' =
                  IF gen.raised
                    THEN Unhandled("rag", auth, gen.calls, TRUE,
                                   primary, secondary)
                    ELSE [op |-> "rag", auth |-> auth, status |-> 200,
                          body |-> [answer |-> gen.value, sources |-> docs],
                          calls |-> gen.calls, retrieved |-> TRUE,
                          before |-> DOCS, query |-> query,
                          extra_context |-> extra_context,
                          primary |-> primary, secondary |-> secondary]
  /\ UNCHANGED <<DOCS, genai, RAG_TOKEN, AVAILABLE_TOOLS, loop>>

\* rag_api.py:115-119
retrieve_endpoint(auth, query) ==
  /\ IF check_auth(auth).raised
       THEN last' = Rejected("retrieve", auth)
       ELSE last' = [op |-> "retrieve", auth |-> auth, status |-> 200,
                     body |-> [query |-> query,
                               results |->
                                 simple_retrieve(DOCS, query, DefaultTopK)],
                     calls |-> <<>>, retrieved |-> TRUE, before |-> DOCS,
                     query |-> query]
  /\ UNCHANGED <<DOCS, genai, RAG_TOKEN, AVAILABLE_TOOLS, loop>>

\* rag_api.py:122-130
summarize_endpoint(auth, query, primary, secondary) ==
  /\ OutcomesDrawn(auth, primary, secondary)
  /\ IF check_auth(auth).raised
       THEN last' = Rejected("summarize", auth)
       ELSE LET prompt == SummarizePrompt(query)
                gen    == call_gemini(prompt, primary, secondary)
            IN  last' =
                  IF gen.raised
                    THEN Unhandled("summarize", auth, gen.calls, FALSE,
                                   primary, secondary)
                    ELSE [op |-> "summarize", auth |-> auth, status |-> 200,
                          body |-> [summary |-> gen.value],
                          calls |-> gen.calls, retrieved |-> FALSE,
                          before |-> DOCS, query |-> query,
                          primary |-> primary, secondary |-> secondary]
  /\ UNCHANGED <<DOCS, genai, RAG_TOKEN, AVAILABLE_TOOLS, loop>>

\* ingest_endpoint putting the new text in front of the list.
ingest_endpoint_Prepend(auth, text) ==
  /\ Len(DOCS) < Len(SeedDocs) + MaxIngest
  /\ IF check_auth(auth).raised
       THEN /\ last' = Rejected("ingest", auth)
            /\ UNCHANGED DOCS
       ELSE /\ DOCS' = <<text>> \o DOCS
            /\ last' = [op |-> "ingest", auth |-> auth, status |-> 200,
                        body |-> [status |-> "ok", count |-> Len(DOCS')],
                        calls |-> <<>>, retrieved |-> FALSE,
                        before |-> DOCS, text |-> text]
  /\ UNCHANGED <<genai, RAG_TOKEN, AVAILABLE_TOOLS, loop>>

\* rag_api.py:133-137
ingest_endpoint(auth, text) ==
  /\ Len(DOCS) < Len(SeedDocs) + MaxIngest
  /\ IF check_auth(auth).raised
       THEN /\ last' = Rejected("ingest", auth)
            /\ UNCHANGED DOCS
       ELSE /\ DOCS' = Append(DOCS, text)
            /\ last' = [op |-> "ingest", auth |-> auth, status |-> 200,
                        body |-> [status |-> "ok", count |-> Len(DOCS')],
                        calls |-> <<>>, retrieved |-> FALSE,
                        before |-> DOCS, text |-> text]
  /\ UNCHANGED <<genai, RAG_TOKEN, AVAILABLE_TOOLS, loop>>

Next ==
  \/ health
  \/ \E auth \in Credentials, query \in ApiQueries,
        extra_context \in ExtraContexts, primary, secondary \in Outcomes :
       rag_endpoint(auth, query, extra_context, primary, secondary)
  \/ \E auth \in Credentials, query \in ApiQueries :
       retrieve_endpoint(auth, query)
  \/ \E auth \in Credentials, query \in ApiQueries,
        primary, secondary \in Outcomes :
       summarize_endpoint(auth, query, primary, secondary)
  \/ \E auth \in Credentials, text \in Texts : ingest_endpoint(auth, text)

Spec == InitApi /\ [][Next]_vars


(***************************************************************************)
(* Properties of the HTTP service.                                         *)
(***************************************************************************)
AuthenticatedOps == {"rag", "retrieve", "summarize", "ingest"}

ExactBearer == BearerPrefix \o RAG_TOKEN

\* C1: a request to /rag, /retrieve, /summarize or /ingest whose credential
\* is not exactly "Bearer " + the configured token (absent, bare token,
\* wrong token, wrong scheme) is answered 401 with no retrieval, no model
\* call and the store as it was.
C1_RejectedBeforeAnyWork ==
  (last.op \in AuthenticatedOps /\ last.auth # ExactBearer) =>
    /\ last.status = 401
    /\ last.retrieved = FALSE
    /\ last.calls = <<>>
    /\ DOCS = last.before

\* The bare token, without the "Bearer " prefix, rejected by /ingest after
\* an earlier ingest was accepted.
C1_Witness ==
  /\ last.op = "ingest"
  /\ last.auth = RAG_TOKEN
  /\ last.status = 401
  /\ Len(DOCS) > Len(SeedDocs)

\* C2 as claimed: every authorized /rag or /summarize request ends in a
\* 200 response carrying an answer, whatever the two model calls do.
C2_AsClaimed ==
  (last.op \in {"rag", "summarize"} /\ last.auth = ExactBearer) =>
    last.status = 200

NotConfiguredMarkers ==
  {<<"(LLM not configured) best match: ">>, <<"(Gemini not configured) ">>}

C6_AppendOnly ==
  /\ Len(DOCS) >= Len(SeedDocs)
  /\ SubSeq(DOCS, 1, Len(SeedDocs)) = SeedDocs
  /\ DOCS # <<>>
  /\ (last.op = "ingest" /\ last.status = 200) =>
       /\ Len(DOCS) = Len(last.before) + 1
       /\ SubSeq(DOCS, 1, Len(last.before)) = last.before
       /\ DOCS[Len(DOCS)] = last.text
       /\ last.body.count = Len(DOCS)
  /\ (last.op \in {"rag", "retrieve", "summarize", "health"}) =>
       DOCS = last.before

\* A second successful ingest.
C6_Witness ==
  /\ last.op = "ingest"
  /\ last.status = 200
  /\ Len(last.before) > Len(SeedDocs)
  /\ last.body.count = Len(SeedDocs) + 2

\* The prompt an authorized request hands to call_gemini.
PromptOf(l) ==
  IF l.op = "rag" THEN RagPrompt(l.body.sources, l.query)
                  ELSE SummarizePrompt(l.query)

\* C10: with a backend configured, the first model call is to the primary
\* model; if it succeeds its text is the answer and no other call is made;
\* otherwise exactly one more call is made, to the secondary model with the
\* same prompt, and if that succeeds its text is the answer.
C10_FallbackOrder ==
  (genai /\ last.op \in {"rag", "summarize"} /\ last.auth = ExactBearer) =>
    LET answer == IF last.op = "rag" THEN last.body.answer
                                     ELSE last.body.summary
    IN  /\ Len(last.calls) >= 1
        /\ last.calls[1].model = PrimaryModel
        /\ Cardinality({i \in 1..Len(last.calls) :
                          last.calls[i].model = SecondaryModel}) <= 1
        /\ last.primary.ok =>
             /\ Len(last.calls) = 1
             /\ last.status = 200
             /\ answer = last.primary.text
             /\ last.calls[1].prompt = PromptOf(last)
        /\ ~last.primary.ok =>
             /\ Len(last.calls) = 2
             /\ last.calls[2].model = SecondaryModel
             /\ last.calls[2].prompt = last.calls[1].prompt
             /\ last.secondary.ok =>
                  /\ last.status = 200
                  /\ answer = last.secondary.text
                  /\ last.calls[1].prompt = PromptOf(last)

\* The primary call failed and the secondary call's text was returned.
C10_Witness ==
  /\ genai
  /\ last.op = "rag"
  /\ last.status = 200
  /\ ~last.primary.ok
  /\ last.secondary.ok
  /\ Len(last.calls) = 2
  /\ last.body.answer = last.secondary.text


(***************************************************************************)
(* The MCP tool proxy: server.py and tools/rag_tools.py.                   *)
(*                                                                         *)
(* A JSON value is a record tagged with its type; a dict carries its       *)
(* entries as a function from keys to JSON values.                         *)
(***************************************************************************)
JStr(v) == [type |-> "str", v |-> v]

JNum(n) == [type |-> "num", v |-> n]

JList(items) == [type |-> "list", items |-> items]

JDict(fields) == [type |-> "dict", fields |-> fields]

JInvalid == [type |-> "invalid"]

NoEntries == [k \in {} |-> JInvalid]

ContentLimit == 200

LongContent == [i \in 1..(ContentLimit + 1) |-> "x"]

\* Bodies the upstream service may answer with on status 200.
JsonBodies ==
  { JDict([answer |-> JStr(<<"the answer">>),
           sources |-> JList(<<JStr(<<"snippet 1">>), JStr(<<"snippet 2">>)>>)]),
    JDict([response |-> JStr(<<"the response">>)]),
    JDict([answer |-> JStr(<<"the answer">>),
           sources |-> JList(<<
             JDict([document |-> JStr(<<"a.txt">>), score |-> JNum(1),
                    content |-> JStr(<<"s", "h", "o", "r", "t">>)]),
             JDict([content |-> JStr(LongContent)])>>)]),
    JDict([sources |-> JList(<<JDict([score |-> JStr(<<"high">>)])>>)]),
    JDict([sources |-> JNum(3)]),
    JDict([sources |-> JList(<<JDict([content |-> JNum(7)])>>)]),
    JDict(NoEntries),
    JDict([results |-> JList(<<JStr(<<"snippet 1">>)>>)]),
    JList(<<>>),
    JInvalid }

NoHttp == [kind |-> "none"]

\* What the POST to the upstream service does, if it is made.
HttpOutcomes ==
  {[kind |-> "response", status |-> 200, json |-> b] : b \in JsonBodies}
    \cup {[kind |-> "response", status |-> st, text |-> <<"upstream says no">>] :
            st \in {401, 500}}
    \cup {[kind |-> "timeout"],
          [kind |-> "error", error |-> <<"connection refused">>]}

ToolNames == {"configure_rag", "rag_docs", "other_tool"}

ProxyTokens == {<<"token-1">>, <<"token-2">>}

DefaultBaseUrl == <<"https://your-rag-service.com/api-path">>

\* The arguments objects of a tool call: any of api_token, base_url, query.
ArgumentSets ==
  {NoEntries, [api_token |-> <<>>], [query |-> <<>>],
   [query |-> <<"what is MCP?">>],
   [api_token |-> <<>>, base_url |-> <<"http://rag.local/rag">>]}
    \cup {[api_token |-> t] : t \in ProxyTokens}
    \cup {[api_token |-> t, base_url |-> <<"http://rag.local/rag">>] :
            t \in ProxyTokens}

\* dict.get(key, default)
Get(arguments, key, default) ==
  IF key \in DOMAIN arguments THEN arguments[key] ELSE default

\* `not v` for a text or None
Falsy(v) == v = None \/ v = <<>>

TextContent(text) == [type |-> "text", text |-> text]

Raise(exc, msg) == [raised |-> TRUE, exc |-> exc, msg |-> msg]

Return(value) == [raised |-> FALSE, value |-> value]

\* rag_tools.py:21-24
RagTool(api_token, base_url) ==
  [name |-> "rag_docs", api_token |-> api_token, base_url |-> base_url,
   endpoint |-> base_url]

\* initialize_rag_tools adding the new tool to the list instead of
\* replacing the list.
initialize_rag_tools_Append(api_token, base_url) ==
  IF Falsy(api_token)
    THEN Raise("ValueError", <<"RAG_API_TOKEN parameter is required">>)
    ELSE Return(Append(AVAILABLE_TOOLS, RagTool(api_token, base_url)))

\* server.py:40-51; the value returned is the new AVAILABLE_TOOLS.
initialize_rag_tools(api_token, base_url) ==
  IF Falsy(api_token)
    THEN Raise("ValueError", <<"RAG_API_TOKEN parameter is required">>)
    ELSE Return(<<RagTool(api_token, base_url)>>)

ConfigureTool ==
  [name |-> "configure_rag", properties |-> {"api_token", "base_url"},
   required |-> {"api_token"}]

\* handle_list_tools listing the configure tool in every state.
handle_list_tools_result_Always(tools) ==
  <<ConfigureTool>> \o
    [i \in 1..Len(tools) |->
       [name |-> tools[i].name, properties |-> {"query"},
        required |-> {"query"}]]

\* server.py:54-92 with rag_tools.py:32-51
handle_list_tools_result(tools) ==
  IF tools = <<>>
    THEN <<ConfigureTool>>
    ELSE [i \in 1..Len(tools) |->
            [name |-> tools[i].name, properties |-> {"query"},
             required |-> {"query"}]]

\* str() of a list of TextContent (server.py:219)
RECURSIVE ReprItems(_)
ReprItems(items) ==
  IF items = <<>> THEN <<>>
  ELSE <<"TextContent(type='text', text='">> \o Head(items).text \o <<"')">>
         \o (IF Len(items) > 1 THEN <<", ">> ELSE <<>>)
         \o ReprItems(Tail(items))

Repr(items) == <<"[">> \o ReprItems(items) \o <<"]">>

\* rag_tools.py:53-120.  The result is what execute returns (it catches
\* everything it raises) and the HTTP requests it issued.
execute(tool, arguments, http) ==
  LET query   == Get(arguments, "query", None)
      request == [url |-> tool.endpoint,
                  authorization |-> <<"Bearer ">> \o tool.api_token,
                  json |-> [query |-> query], timeout |-> 30]
  IN  IF Falsy(query)
        THEN [value |-> [type |-> "list", items |->
                <<TextContent(<<"Error: Query parameter is required">>)>>],
              requests |-> <<>>]
      ELSE IF http.kind = "timeout"
        THEN [value |-> [type |-> "list", items |->
                <<TextContent(<<"Request timeout">>),
                  TextContent(<<"Timeout in RAG Docs service call">>)>>],
              requests |-> <<request>>]
      ELSE IF http.kind = "error"
        THEN [value |-> [type |-> "list", items |->
                <<TextContent(<<"Unexpected error in RAG Docs query: ">>
                                \o http.error)>>],
              requests |-> <<request>>]
      ELSE IF http.status # 200
        THEN [value |-> [type |-> "list", items |->
                <<TextContent(<<"API error ", ToString(http.status), ": ">>
                                \o http.text),
                  TextContent(<<"Error in RAG Docs call (status ",
                                ToString(http.status), ")">>)>>],
              requests |-> <<request>>]
      ELSE IF http.json.type = "invalid"
        THEN [value |-> [type |-> "list", items |->
                <<TextContent(<<"Unexpected error in RAG Docs query: ",
                                "invalid JSON">>)>>],
              requests |-> <<request>>]
      ELSE [value |-> [type |-> "dict", success |-> TRUE,
                       message |-> <<"Query executed successfully">>,
                       data |-> http.json, query |-> query],
            requests |-> <<request>>]

\* f"{v}" of a JSON value
Fmt(v) ==
  CASE v.type = "str"  -> v.v
    [] v.type = "num"  -> <<ToString(v.v)>>
    [] v.type = "list" -> <<"<repr of a list>">>
    [] v.type = "dict" -> <<"<repr of a dict>">>

\* server.py:176-191, one entry of the sources list
SourceLine(i, source) ==
  IF source.type # "dict"
    THEN Return(<<"  ", ToString(i), ". ">> \o Fmt(source))
  ELSE
    LET f == source.fields
        has(k) == k \in DOMAIN f
        document == IF has("document")
                      THEN <<"Document: ">> \o Fmt(f.document) ELSE <<>>
        score == IF has("score")
                   THEN <<" (Score: ", ToString(f.score.v), ".000", ")">>
                   ELSE <<>>
        content == IF has("content")
                     THEN <<"\n     Content: ">> \o
                          (IF Len(f.content.v) > ContentLimit
                             THEN SubSeq(f.content.v, 1, ContentLimit)
                                    \o <<"...">>
                             ELSE f.content.v)
                     ELSE <<>>
    IN  IF has("score") /\ f.score.type = "str"
          THEN Raise("ValueError", <<"Unknown format code 'f'">>)
        ELSE IF has("score") /\ f.score.type # "num"
          THEN Raise("TypeError", <<"unsupported format string">>)
        ELSE IF has("content") /\ f.content.type = "num"
          THEN Raise("TypeError", <<"object has no len()">>)
        ELSE Return(<<"  ", ToString(i), ". ">> \o document \o score
                      \o content)

RECURSIVE SourceLines(_, _)
SourceLines(sources, i) ==
  IF i > Len(sources) THEN Return(<<>>)
  ELSE LET line == SourceLine(i, sources[i])
           rest == SourceLines(sources, i + 1)
       IN  IF line.raised THEN line
           ELSE IF rest.raised THEN rest
           ELSE Return(<<line.value>> \o rest.value)

\* "\n".join(details)
RECURSIVE JoinLines(_)
JoinLines(details) ==
  IF details = <<>> THEN <<>>
  ELSE IF Len(details) = 1 THEN details[1]
  ELSE details[1] \o <<"\n">> \o JoinLines(Tail(details))

\* server.py:157-219: the text segments made of what execute returned.
FormatResult(result) ==
  IF result.type # "dict"
    THEN Return(<<TextContent(Repr(result.items))>>)
  ELSE
    LET rag_data == result.data
        isdict   == rag_data.type = "dict"
        has(k)   == isdict /\ k \in DOMAIN rag_data.fields
        answer   == IF has("answer")
                      THEN <<<<"Response: ">> \o Fmt(rag_data.fields.answer)>>
                    ELSE IF has("response")
                      THEN <<<<"Response: ">> \o Fmt(rag_data.fields.response)>>
                    ELSE <<>>
        lines    == IF ~has("sources") THEN Return(<<>>)
                    ELSE IF rag_data.fields.sources.type = "list"
                      THEN SourceLines(rag_data.fields.sources.items, 1)
                    ELSE Raise("TypeError", <<"object is not iterable">>)
        sources  == IF has("sources")
                      THEN <<<<"Source Documents:">>>> \o lines.value
                      ELSE <<>>
        raw      == IF isdict /\ answer \o sources = <<>>
                       /\ rag_data.fields # NoEntries
                      THEN <<<<"RAG Data: ", "<json.dumps of the body>">>>>
                      ELSE <<>>
        details  == (IF isdict THEN answer \o sources \o raw ELSE <<>>)
                      \o <<<<"Query: ">> \o result.query>>
    IN  IF lines.raised THEN lines
        ELSE Return(<<TextContent(JoinLines(details))>>)

\* The try of handle_call_tool with a handler for KeyError only.
TryExcept_KeyErrorOnly(name, outcome) ==
  IF ~outcome.raised THEN outcome
  ELSE IF outcome.exc = "KeyError"
    THEN Return(<<TextContent(<<"Error in tool parameters '", name, "': ">>
                                \o outcome.msg)>>)
  ELSE outcome

\* server.py:221-240: what leaves handle_call_tool when its body raised.
TryExcept(name, outcome) ==
  IF ~outcome.raised THEN outcome
  ELSE IF outcome.exc \in {"ValueError", "TypeError", "KeyError"}
    THEN Return(<<TextContent(<<"Error in tool parameters '", name, "': ">>
                                \o outcome.msg)>>)
  ELSE Return(<<TextContent(
         <<"Unexpected error occurred while executing tool '", name, "': ">>
           \o outcome.msg)>>)


NotConfiguredText ==
  <<"RAG tools not configured. Please call 'configure_rag' tool first with your API token.">>

\* server.py:100-219, the body of the try: the outcome (a return value or
\* an exception), the new AVAILABLE_TOOLS and the HTTP requests issued.
CallToolBody(name, arguments, http) ==
  IF name = "configure_rag"
    THEN LET api_token == Get(arguments, "api_token", None)
             base_url  == Get(arguments, "base_url", DefaultBaseUrl)
             init      == initialize_rag_tools(api_token, base_url)
         IN  IF Falsy(api_token)
               THEN [outcome |-> Return(<<TextContent(
                       <<"Error: api_token parameter is required for configuration">>)>>),
                     tools |-> AVAILABLE_TOOLS, requests |-> <<>>]
             ELSE IF init.raised
               THEN [outcome |-> Return(<<TextContent(
                       <<"Error configuring RAG tools: ">> \o init.msg)>>),
                     tools |-> AVAILABLE_TOOLS, requests |-> <<>>]
             ELSE [outcome |-> Return(<<TextContent(
                     <<"RAG tools configured successfully with base URL: ">>
                       \o base_url)>>),
                   tools |-> init.value, requests |-> <<>>]
  ELSE IF AVAILABLE_TOOLS = <<>>
    THEN [outcome |-> Return(<<TextContent(NotConfiguredText)>>),
          tools |-> AVAILABLE_TOOLS, requests |-> <<>>]
  ELSE
    LET found == {i \in 1..Len(AVAILABLE_TOOLS) :
                    AVAILABLE_TOOLS[i].name = name}
    IN  IF found = {}
          THEN [outcome |-> Return(<<TextContent(
                  <<"Tool '", name, "' not found. Available tools: ",
                    "<repr of the tool names>">>)>>),
                tools |-> AVAILABLE_TOOLS, requests |-> <<>>]
        ELSE LET tool == AVAILABLE_TOOLS[CHOOSE i \in found :
                                           \A j \in found : i <= j]
                 ex   == execute(tool, arguments, http)
             IN  [outcome |-> FormatResult(ex.value),
                  tools |-> AVAILABLE_TOOLS, requests |-> ex.requests]

\* The call reaches the POST of RagTool.execute.
IssuesRequest(name, arguments) ==
  /\ name # "configure_rag"
  /\ \E i \in 1..Len(AVAILABLE_TOOLS) : AVAILABLE_TOOLS[i].name = name
  /\ ~Falsy(Get(arguments, "query", None))

InitProxy ==
  /\ DOCS = SeedDocs
  /\ genai = FALSE
  /\ RAG_TOKEN = DefaultToken
  /\ AVAILABLE_TOOLS = <<>>
  /\ loop = IdleLoop
  /\ last = InitLast

\* server.py:54-92
handle_list_tools ==
  /\ last' = [op |-> "list_tools", before |-> AVAILABLE_TOOLS,
              raised |-> FALSE,
              result |-> handle_list_tools_result(AVAILABLE_TOOLS)]
  /\ UNCHANGED <<DOCS, genai, RAG_TOKEN, AVAILABLE_TOOLS, loop>>

\* server.py:95-240.  http is what the upstream POST does; it is drawn only
\* for a call that issues the POST.
handle_call_tool(name, arguments, http) ==
  /\ (http # NoHttp) = IssuesRequest(name, arguments)
  /\ LET body  == CallToolBody(name, arguments, http)
         final == TryExcept(name, body.outcome)
     IN  /\ AVAILABLE_TOOLS' = body.tools
         /\ last' = [op |-> "call_tool", name |-> name,
                     arguments |-> arguments, http |-> http,
                     before |-> AVAILABLE_TOOLS,
                     raised |-> final.raised,
                     result |-> IF final.raised THEN <<>> ELSE final.value,
                     requests |-> body.requests]
  /\ UNCHANGED <<DOCS, genai, RAG_TOKEN, loop>>

NextProxy ==
  \/ handle_list_tools
  \/ \E name \in ToolNames, arguments \in ArgumentSets,
        http \in HttpOutcomes \cup {NoHttp} :
       handle_call_tool(name, arguments, http)

SpecProxy == InitProxy /\ [][NextProxy]_vars


(***************************************************************************)
(* Properties of the tool proxy.                                           *)
(***************************************************************************)
Has(text, symbol) == \E i \in 1..Len(text) : text[i] = symbol

PosOf(text, symbol) == CHOOSE i \in 1..Len(text) : text[i] = symbol

\* C7: Unconfigured, list_tools returns exactly the configure tool, and a
\* call of any other tool returns the configure-first text and issues no
\* HTTP request; Configured, list_tools returns exactly one tool, rag_docs,
\* which requires a query.
C7_Gating ==
  /\ (last.op = "list_tools" /\ last.before = <<>>) =>
       /\ Len(last.result) = 1
       /\ last.result[1].name = "configure_rag"
       /\ "api_token" \in last.result[1].required
  /\ (last.op = "list_tools" /\ last.before # <<>>) =>
       /\ Len(last.result) = 1
       /\ last.result[1].name = "rag_docs"
       /\ last.result[1].required = {"query"}
  /\ (last.op = "call_tool" /\ last.before = <<>>
        /\ last.name # "configure_rag") =>
       /\ ~last.raised
       /\ last.result = <<TextContent(NotConfiguredText)>>
       /\ last.requests = <<>>
       /\ AVAILABLE_TOOLS = <<>>

\* rag_docs called with a query while Unconfigured.
C7_Witness ==
  /\ last.op = "call_tool"
  /\ last.before = <<>>
  /\ last.name = "rag_docs"
  /\ ~Falsy(Get(last.arguments, "query", None))

\* The tools listed once Configured.
C7_WitnessConfigured ==
  /\ last.op = "list_tools"
  /\ last.before # <<>>

ConfigureOutcome ==
  (last.op = "call_tool" /\ last.name = "configure_rag") =>
    LET api_token == Get(last.arguments, "api_token", None)
        base_url  == Get(last.arguments, "base_url", DefaultBaseUrl)
    IN  /\ ~last.raised
        /\ Len(last.result) = 1
        /\ last.requests = <<>>
        /\ ~Falsy(api_token) =>
             /\ Len(AVAILABLE_TOOLS) = 1
             /\ AVAILABLE_TOOLS[1].api_token = api_token
             /\ AVAILABLE_TOOLS[1].base_url = base_url
             /\ Has(last.result[1].text,
                    "RAG tools configured successfully with base URL: ")
        /\ Falsy(api_token) =>
             /\ AVAILABLE_TOOLS = last.before
             /\ Has(last.result[1].text,
                    "Error: api_token parameter is required for configuration")

\* C8: configure_rag with a non-empty token leaves the proxy Configured
\* with exactly that token and URL (replacing any earlier ones); with an
\* empty or missing token it returns an error text and leaves the proxy as
\* it was; and no step takes a Configured proxy back to Unconfigured.
C8_Configure ==
  /\ []ConfigureOutcome
  /\ [][AVAILABLE_TOOLS # <<>> => AVAILABLE_TOOLS' # <<>>]_vars

\* A second successful configure, with another token.
C8_Witness ==
  /\ last.op = "call_tool"
  /\ last.name = "configure_rag"
  /\ last.before # <<>>
  /\ AVAILABLE_TOOLS # <<>>
  /\ AVAILABLE_TOOLS[1].api_token # last.before[1].api_token

\* The bodies whose rendering raises: sources that cannot be iterated, a
\* source whose score is not a number or whose content has no length.
RenderingRaises(json) ==
  /\ json.type = "dict"
  /\ "sources" \in DOMAIN json.fields
  /\ LET sources == json.fields.sources
     IN  \/ sources.type # "list"
         \/ \E i \in 1..Len(sources.items) :
              /\ sources.items[i].type = "dict"
              /\ LET f == sources.items[i].fields
                 IN  \/ "score" \in DOMAIN f /\ f.score.type # "num"
                     \/ "content" \in DOMAIN f /\ f.content.type # "str"

\* C9: Configured, a rag_docs call never raises out of handle_call_tool and
\* returns text segments: on status 200 the answer or response, then the
\* enumerated sources, then the query; on a missing query, a timeout, a
\* non-200 status or an exception in the call or in the rendering, a text
\* that describes the failure.
C9_AlwaysText ==
  (last.op = "call_tool" /\ last.before # <<>> /\ last.name = "rag_docs") =>
    LET query == Get(last.arguments, "query", None)
        http  == last.http
        text  == last.result[1].text
        ok    == http.kind = "response" /\ http.status = 200
    IN  /\ ~last.raised
        /\ Len(last.result) >= 1
        /\ \A i \in 1..Len(last.result) : last.result[i].type = "text"
        /\ AVAILABLE_TOOLS = last.before
        /\ Falsy(query) =>
             /\ last.requests = <<>>
             /\ Has(text, "Error: Query parameter is required")
        /\ ~Falsy(query) =>
             /\ Len(last.requests) = 1
             /\ last.requests[1].url = last.before[1].base_url
             /\ last.requests[1].authorization =
                  <<"Bearer ">> \o last.before[1].api_token
             /\ last.requests[1].json = [query |-> query]
             /\ http.kind = "timeout" => Has(text, "Request timeout")
             /\ http.kind = "error" =>
                  /\ Has(text, "Unexpected error in RAG Docs query: ")
                  /\ \A i \in 1..Len(http.error) : Has(text, http.error[i])
             /\ (http.kind = "response" /\ http.status # 200) =>
                  /\ Has(text, "API error ")
                  /\ Has(text, ToString(http.status))
                  /\ \A i \in 1..Len(http.text) : Has(text, http.text[i])
             /\ (ok /\ http.json.type = "invalid") =>
                  Has(text, "Unexpected error in RAG Docs query: ")
             /\ (ok /\ RenderingRaises(http.json)) =>
                  Has(text, "Error in tool parameters '")
             /\ (ok /\ http.json.type # "invalid"
                    /\ ~RenderingRaises(http.json)) =>
                  LET isdict == http.json.type = "dict"
                      has(k) == isdict /\ k \in DOMAIN http.json.fields
                  IN  /\ SubSeq(text, Len(text) - Len(query), Len(text))
                           = <<"Query: ">> \o query
                      /\ has("answer") =>
                           SubSeq(text, 1, 1 + Len(http.json.fields.answer.v))
                             = <<"Response: ">> \o http.json.fields.answer.v
                      /\ (~has("answer") /\ has("response")) =>
                           SubSeq(text, 1, 1 + Len(http.json.fields.response.v))
                             = <<"Response: ">> \o http.json.fields.response.v
                      /\ has("sources") =>
                           /\ Has(text, "Source Documents:")
                           /\ PosOf(text, "Source Documents:")
                                < PosOf(text, "Query: ")
                           /\ has("answer") =>
                                PosOf(text, "Response: ")
                                  < PosOf(text, "Source Documents:")
                           /\ \A i \in 1..Len(http.json.fields.sources.items) :
                                /\ Has(text, ToString(i))
                                /\ PosOf(text, "Source Documents:")
                                     < PosOf(text, ToString(i))
                                /\ PosOf(text, ToString(i))
                                     < PosOf(text, "Query: ")

\* A 200 answer whose rendering raised and was turned into text.
C9_Witness ==
  /\ last.op = "call_tool"
  /\ last.before # <<>>
  /\ last.name = "rag_docs"
  /\ last.http.kind = "response"
  /\ last.http.status = 200
  /\ RenderingRaises(last.http.json)
  /\ ~last.raised
  /\ Has(last.result[1].text, "Error in tool parameters '")

\* A 200 answer rendered with its answer, two sources and the query.
C9_WitnessRendered ==
  /\ last.op = "call_tool"
  /\ last.before # <<>>
  /\ last.name = "rag_docs"
  /\ last.http.kind = "response"
  /\ last.http.status = 200
  /\ last.http.json.type = "dict"
  /\ ~RenderingRaises(last.http.json)
  /\ {"answer", "sources"} \subseteq DOMAIN last.http.json.fields
  /\ Has(last.result[1].text, "Source Documents:")


(***************************************************************************)
(* Concurrent requests to the HTTP service.  The routes are coroutines of  *)
(* one event loop: a request that was received runs when the loop is free, *)
(* statement by statement, and gives the loop up only at an await or at    *)
(* its return.                                                             *)
(***************************************************************************)
MaxRequests == 3      \* requests received per behaviour

ConcurrentQueries == {<<"R", "A", "G">>}

\* The requests received: an ingest of a text, or a retrieve or rag of a
\* query, each with the valid credential.
RequestKinds ==
  {[kind |-> "ingest", arg |-> t] : t \in Texts}
    \cup {[kind |-> k, arg |-> q] :
            k \in {"retrieve", "rag"}, q \in ConcurrentQueries}

NoResponse == [status |-> 0]

\* ingest_endpoint awaiting between DOCS.append and len(DOCS).
AwaitsAt_AfterAppend(kind, pc) == kind = "ingest" /\ pc = "appended"

\* rag_api.py:93-137: TRUE iff the route `kind` has an await after the
\* statement that leaves it at pc.  No route awaits anything.
AwaitsAt(kind, pc) == FALSE

\* The request i may execute its next statement.
Scheduled(i, pc) ==
  /\ i \in 1..Len(loop.tasks)
  /\ loop.tasks[i].pc = pc
  /\ loop.running = i \/ (loop.running = 0 /\ pc # "done")

\* The loop after request i executed a statement and became task.
Proceed(i, task) ==
  [running |-> IF task.pc = "done" \/ AwaitsAt(task.kind, task.pc)
                 THEN 0 ELSE i,
   tasks   |-> [loop.tasks EXCEPT ![i] = task]]

InitConcurrent ==
  /\ DOCS = SeedDocs
  /\ genai = FALSE
  /\ RAG_TOKEN = DefaultToken
  /\ AVAILABLE_TOOLS = <<>>
  /\ loop = IdleLoop
  /\ last = InitLast

\* The framework hands a request to its route.
Receive(request) ==
  /\ loop.running = 0
  /\ Len(loop.tasks) < MaxRequests
  /\ loop' = [loop EXCEPT !.tasks = Append(@,
                [kind |-> request.kind, arg |-> request.arg,
                 auth |-> BearerPrefix \o RAG_TOKEN, pc |-> "received",
                 observed |-> <<>>, results |-> <<>>,
                 response |-> NoResponse])]
  /\ UNCHANGED <<DOCS, genai, RAG_TOKEN, AVAILABLE_TOOLS, last>>

\* rag_api.py:96, 117, 135
CheckAuth(i) ==
  /\ Scheduled(i, "received")
  /\ LET task == loop.tasks[i]
         auth == check_auth(task.auth)
     IN  loop' = Proceed(i,
           IF auth.raised
             THEN [task EXCEPT !.pc = "done",
                               !.response = [status |-> auth.status]]
             ELSE [task EXCEPT !.pc = "authorized"])
  /\ UNCHANGED <<DOCS, genai, RAG_TOKEN, AVAILABLE_TOOLS, last>>

\* rag_api.py:136
IngestAppend(i) ==
  /\ Scheduled(i, "authorized")
  /\ loop.tasks[i].kind = "ingest"
  /\ DOCS' = Append(DOCS, loop.tasks[i].arg)
  /\ loop' = Proceed(i, [loop.tasks[i] EXCEPT !.pc = "appended"])
  /\ UNCHANGED <<genai, RAG_TOKEN, AVAILABLE_TOOLS, last>>

\* rag_api.py:137
IngestReturn(i) ==
  /\ Scheduled(i, "appended")
  /\ loop' = Proceed(i, [loop.tasks[i] EXCEPT
               !.pc = "done",
               !.response = [status |-> 200, count |-> Len(DOCS)]])
  /\ UNCHANGED <<DOCS, genai, RAG_TOKEN, AVAILABLE_TOOLS, last>>

\* rag_api.py:99, 118
Retrieve(i) ==
  /\ Scheduled(i, "authorized")
  /\ loop.tasks[i].kind \in {"retrieve", "rag"}
  /\ loop' = Proceed(i, [loop.tasks[i] EXCEPT
               !.pc = "retrieved",
               !.observed = DOCS,
               !.results = simple_retrieve(DOCS, loop.tasks[i].arg,
                                           DefaultTopK)])
  /\ UNCHANGED <<DOCS, genai, RAG_TOKEN, AVAILABLE_TOOLS, last>>

\* rag_api.py:119
RetrieveReturn(i) ==
  /\ Scheduled(i, "retrieved")
  /\ loop.tasks[i].kind = "retrieve"
  /\ loop' = Proceed(i, [loop.tasks[i] EXCEPT
               !.pc = "done",
               !.response = [status |-> 200,
                             results |-> loop.tasks[i].results]])
  /\ UNCHANGED <<DOCS, genai, RAG_TOKEN, AVAILABLE_TOOLS, last>>

\* rag_api.py:102-112, with no extra context
RagGenerate(i) ==
  /\ Scheduled(i, "retrieved")
  /\ loop.tasks[i].kind = "rag"
  /\ LET task == loop.tasks[i]
         gen  == call_gemini(RagPrompt(task.results, task.arg),
                             Failure, Failure)
     IN  loop' = Proceed(i, [task EXCEPT
           !.pc = "done",
           !.response = IF gen.raised
                          THEN [status |-> 500]
                          ELSE [status |-> 200, answer |-> gen.value,
                                sources |-> task.results]])
  /\ UNCHANGED <<DOCS, genai, RAG_TOKEN, AVAILABLE_TOOLS, last>>

NextConcurrent ==
  \/ \E request \in RequestKinds : Receive(request)
  \/ \E i \in 1..MaxRequests :
       \/ CheckAuth(i)
       \/ IngestAppend(i)
       \/ IngestReturn(i)
       \/ Retrieve(i)
       \/ RetrieveReturn(i)
       \/ RagGenerate(i)

SpecConcurrent == InitConcurrent /\ [][NextConcurrent]_vars

\* Every request received has been answered.
Quiescent == \A i \in 1..Len(loop.tasks) : loop.tasks[i].pc = "done"

Ingests == {i \in 1..Len(loop.tasks) : loop.tasks[i].kind = "ingest"}

Readers == {i \in 1..Len(loop.tasks) : loop.tasks[i].kind \in {"retrieve", "rag"}}

IsPrefix(s, t) == Len(s) <= Len(t) /\ SubSeq(t, 1, Len(s)) = s

\* C11: once every received request is answered, with k of them ingests,
\* the store is the seed snippets followed by k entries, each ingested text
\* occurring there once per ingest that supplied it; the ingests' counts are
\* exactly the k values initial+1 .. initial+k; and every retrieve and rag
\* read a store that is a prefix of the final one.
C11_NoLostAppend ==
  Quiescent =>
    LET k == Cardinality(Ingests)
        appended == (Len(SeedDocs) + 1)..Len(DOCS)
    IN  /\ Len(DOCS) = Len(SeedDocs) + k
        /\ SubSeq(DOCS, 1, Len(SeedDocs)) = SeedDocs
        /\ \A t \in Texts :
             Cardinality({j \in appended : DOCS[j] = t})
               = Cardinality({i \in Ingests : loop.tasks[i].arg = t})
        /\ \A i \in Ingests : loop.tasks[i].response.status = 200
        /\ {loop.tasks[i].response.count : i \in Ingests}
             = (Len(SeedDocs) + 1)..(Len(SeedDocs) + k)
        /\ \A i, j \in Ingests :
             i # j => loop.tasks[i].response.count
                        # loop.tasks[j].response.count
        /\ \A i \in Readers :
             /\ loop.tasks[i].response.status = 200
             /\ IsPrefix(loop.tasks[i].observed, DOCS)

\* Two ingests answered, with a reader that ran between them.
C11_Witness ==
  /\ Quiescent
  /\ Cardinality(Ingests) = 2
  /\ \E i \in Readers :
       Len(loop.tasks[i].observed) = Len(SeedDocs) + 1

=============================================================================
